---- MODULE Spec2Model ----
(***************************************************************************)
(* Model of the elections back end (TereRoxy/elections-be): the Postgres   *)
(* backed server with server-side sessions (src/server.js) and with JWT    *)
(* (src/unnamed/part_000).  Every awaited store call of a handler is one   *)
(* step, so that requests interleave exactly at the handlers' awaits.      *)
(***************************************************************************)
EXTENDS Integers, Sequences, FiniteSets, TLC

\* ------------------------------------------------------------ bounds
MaxSlots == 2        \* requests that may be in flight together
MaxVoters == 2       \* distinct well-formed CNPs that clients send
MaxCandidates == 2   \* uuids the id generator hands out
MaxSessions == 2     \* session ids / tokens the server issues
MaxBodyCount == 0    \* largest voteCount a request body carries
MaxRequests == 5     \* requests that clients send while requests overlap
MaxClients == 2      \* websocket connections made
MaxPayloadCount == 1 \* largest voteCount a create payload carries

\* ------------------------------------------------------------ program constants
CNP_LENGTH == 13

\* ------------------------------------------------------------ values
Slots == 1..MaxSlots
CandIds == 1..MaxCandidates
SessionIds == 1..MaxSessions
Clients == 1..MaxClients
NoCred == 0
Names == {"a", "b"}
DigitChars == {"0", "1", "2", "3", "4", "5", "6", "7", "8", "9"}
DigitOf == <<"1", "2", "3", "4", "5", "6", "7", "8", "9">>

\* the i-th well-formed CNP: thirteen times the digit i
Cnp(i) == [j \in 1..CNP_LENGTH |-> DigitOf[i]]
Voters == 1..MaxVoters
Cnps == {Cnp(i) : i \in Voters}
\* malformed register/login inputs: twelve digits, and a letter in a 13-string
ShortCnp == [j \in 1..(CNP_LENGTH - 1) |-> "1"]
LetterCnp == [j \in 1..CNP_LENGTH |-> IF j = CNP_LENGTH THEN "x" ELSE "1"]
CnpInputs == Cnps \cup {ShortCnp, LetterCnp}
\* table users is keyed by the voter's number i, standing for the row with cnp Cnp(i)
NoVoter == 0
VoterOf(cnp) == IF cnp \in Cnps THEN CHOOSE i \in Voters : Cnp(i) = cnp ELSE NoVoter

\* /^\d{13}$/.test(cnp)
ValidCnp(cnp) == Len(cnp) = CNP_LENGTH /\ \A j \in 1..Len(cnp) : cnp[j] \in DigitChars

\* a row of table users; found = FALSE is findOne's null
NoUser == [found |-> FALSE, hasVoted |-> FALSE, votedCandidateId |-> 0]
NewUser == [found |-> TRUE, hasVoted |-> FALSE, votedCandidateId |-> 0]

\* a row of table candidates; exists = FALSE is findOne's null
NoRow == [exists |-> FALSE, name |-> "", voteCount |-> 0]

\* request bodies of create and update: any subset of the fields name, voteCount
Bodies ==
    {[name |-> n] : n \in Names}
    \cup {[voteCount |-> k] : k \in 0..MaxBodyCount}
    \cup {[name |-> n, voteCount |-> k] : n \in Names, k \in 0..MaxBodyCount}
NoBody == [none |-> TRUE]
\* create payloads of the audited behaviours: a name, with or without a voteCount
\* and an id of the client's choosing; name stands for the four content fields
\* name, party, description, imageUrl, which the handler treats alike
Payloads ==
    {[name |-> n] : n \in Names}
    \cup {[name |-> n, voteCount |-> k] : n \in Names, k \in 0..MaxPayloadCount}
    \cup {[name |-> n, id |-> i] : n \in Names, i \in CandIds}
    \cup {[name |-> n, id |-> i, voteCount |-> k] :
              n \in Names, i \in CandIds, k \in 0..MaxPayloadCount}
    \cup {[voteCount |-> k] : k \in 0..MaxPayloadCount}
Has(body, f) == f \in DOMAIN body

ProtectedRoutes == {"vote", "list", "create", "update", "delete", "generate"}
MutatingRoutes == {"create", "update", "delete"}

VARIABLES
    variant,      \* "session" (server.js), "jwt" (part_000) or "memory" (part_001, part_002)
    sequential,   \* TRUE: clients send a request only after the previous response
    users,        \* table users, by cnp
    candidates,   \* table candidates, by id; the array of the in-memory variants
    issued,       \* number of uuids handed out so far
    sessions,     \* session store / unexpired signed tokens: id -> cnp
    nsid,         \* number of session ids / tokens issued so far
    req,          \* the requests in flight, one per slot, with the handler's locals
    resp,         \* the response sent by the last step, NoResp if it sent none
    pre,          \* history: the tables when the (sequential) request arrived, and its inputs
    nreq,         \* history: requests received so far while requests overlap
    oks,          \* history: per voter, the number of 'Vote recorded' answers
    okFor,        \* history: per candidate, the number of 'Vote recorded' answers
    tampered,     \* history: candidates whose voteCount an update body overwrote
    listeners,    \* TRUE: websocket clients connect in this behaviour
    clients,      \* wss.clients and the sockets that were closed, with what each received
    audit,        \* TRUE: the history keeps each request's credential and payload
    ended         \* history (audit): per session id, "logout" or "expired" once it ended

vars == <<variant, sequential, users, candidates, issued, sessions, nsid, req, resp,
          pre, nreq, oks, okFor, tampered, listeners, clients, audit, ended>>

\* a slot: the handler's position and locals, and what the request did so far
Idle ==
    [pc |-> "idle", route |-> "", voter |-> NoVoter, cid |-> 0, body |-> NoBody,
     user |-> NoUser, candidate |-> NoRow, list |-> <<>>,
     credOk |-> FALSE, after |-> FALSE, wUser |-> FALSE, wCand |-> FALSE,
     tracking |-> FALSE, post |-> <<>>, hist |-> {}, ahead |-> {}]

NoResp ==
    [route |-> "", status |-> 0, credOk |-> FALSE, after |-> FALSE,
     wUser |-> FALSE, wCand |-> FALSE, nbc |-> 0, auth |-> FALSE]

EmptyTable == [c \in CandIds |-> NoRow]

\* a websocket: state "none" before the connection, then "lookup" (session lookup
\* pending), "reading" (findAll pending), "sending" (list read, not yet sent), "open",
\* and "closed".  list is the handler's local, last the payload of the last
\* 'candidates' message the server sent on the socket (<<>>: none); reads = FALSE
\* is a peer that never reads its socket.  History: valid (the
\* credential was live at the connection), behind (the store changed after the
\* handler's read), overtaken (a broadcast read after such a change reached the client
\* before its initial snapshot), stale (the initial snapshot arrived after it)
NoClient ==
    [state |-> "none", cred |-> NoCred, valid |-> FALSE, reads |-> TRUE,
     list |-> <<>>, last |-> <<>>,
     behind |-> FALSE, overtaken |-> FALSE, stale |-> FALSE]
NoTables ==
    [users |-> [v \in Voters |-> NoUser], candidates |-> EmptyTable,
     voter |-> NoVoter, cid |-> 0, cred |-> NoCred, body |-> NoBody]

InitCommon ==
    /\ variant \in {"session", "jwt"}
    /\ users = [v \in Voters |-> NoUser]
    /\ candidates = EmptyTable
    /\ issued = 0
    /\ sessions = [s \in SessionIds |-> NoVoter]
    /\ nsid = 0
    /\ req = [r \in Slots |-> Idle]
    /\ resp = NoResp
    /\ pre = NoTables
    /\ nreq = 0
    /\ oks = [v \in Voters |-> 0]
    /\ okFor = [c \in CandIds |-> 0]
    /\ tampered = {}
    /\ clients = [c \in Clients |-> NoClient]
    /\ ended = [s \in SessionIds |-> ""]

Init ==
    InitCommon /\ sequential = FALSE /\ variant = "session" /\ listeners = FALSE
               /\ audit = FALSE
InitSeq == InitCommon /\ sequential = TRUE /\ listeners = FALSE /\ audit = FALSE

\* ------------------------------------------------------------ helpers
FindUser(voter) == IF voter \in Voters THEN users[voter] ELSE NoUser

\* a slot takes a new request when it holds none; with sequential clients a single
\* slot is used, so requests never overlap
SlotFree(r) ==
    /\ req[r].pc = "idle"
    /\ sequential => r = 1
    /\ ~sequential => nreq < MaxRequests

\* history: the tables as the sequential request found them, and whose request
\* for which candidate id it is
Arrival(voter, cid) ==
    IF sequential
    THEN [users |-> users, candidates |-> candidates, voter |-> voter, cid |-> cid,
          cred |-> NoCred, body |-> NoBody]
    ELSE pre
\* history: the same with the credential and the payload the request carried
Audited(voter, cid, cred, body) ==
    IF audit
    THEN [Arrival(voter, cid) EXCEPT !.cred = cred, !.body = body]
    ELSE Arrival(voter, cid)
\* history: the session id s ended for the reason why
Ended(s, why) == IF audit /\ s \in 1..nsid THEN [ended EXCEPT ![s] = why] ELSE ended
\* requests are counted where MaxRequests is what bounds the behaviour
Received == IF sequential \/ listeners THEN nreq ELSE nreq + 1

\* the response to the request rec, nbc broadcasts after it arrived; auth is the
\* isAuthenticated of a check-session answer
Reply(rec, code, nbc) ==
    [route |-> rec.route, status |-> code, credOk |-> rec.credOk, after |-> rec.after,
     wUser |-> rec.wUser, wCand |-> rec.wCand, nbc |-> nbc, auth |-> FALSE]

\* a request of an unprotected route, answered in the step that received it
Plain(route, voter) == [Idle EXCEPT !.route = route, !.voter = voter]

\* session ids still to be handed out, less those reserved by registrations in flight
SessionIdLeft ==
    nsid + Cardinality({r \in Slots : req[r].pc = "registerCreate"}) < MaxSessions

Tables == <<users, candidates, issued>>
History == <<oks, okFor, tampered, ended>>
Mode == <<variant, sequential, listeners, audit>>

\* ------------------------------------------------------------ auth gate
\* sessionStore.get(sessionId) / jwt.verify(token): the identity bound to a
\* credential that is stored (signed) and has not expired
SessionUser(cred) == IF cred \in SessionIds THEN sessions[cred] ELSE NoVoter

\* if (err || !session || !session.user) in the connection handler and in
\* check-session
SessionFound(cred) == SessionUser(cred) # NoVoter

authenticateSessionAlways(cred) == TRUE
\* authenticateSession: 401 without X-Session-ID, 401 when the store holds no session
\* with a user for it
authenticateSession(cred) == cred # NoCred /\ SessionUser(cred) # NoVoter

\* authenticateJWT: 401 without a Bearer header, 401 when jwt.verify throws
\* (a token that was never signed with the secret, or has expired)
authenticateJWT(cred) == cred # NoCred /\ SessionUser(cred) # NoVoter

AuthGate(cred) ==
    IF variant = "session" THEN authenticateSession(cred) ELSE authenticateJWT(cred)

\* history: the credential is one the server issued and is still live
LiveCredential(cred) == cred \in 1..nsid /\ sessions[cred] # NoVoter

Credentials == {NoCred} \cup SessionIds

\* the request of a protected route as it enters its handler.  The middleware's
\* lookup and the handler's first query are one step: no handler reads the
\* session store again.
Admitted(route, cred, cid, body) ==
    [Idle EXCEPT !.route = route, !.voter = SessionUser(cred), !.cid = cid,
                 !.body = body, !.credOk = LiveCredential(cred),
                 !.after = (route = "vote" /\ SessionUser(cred) \in Voters
                            /\ oks[SessionUser(cred)] > 0)]

\* the middleware answers 401 and the handler is not entered
Reject(r) ==
    \E route \in ProtectedRoutes, cred \in Credentials :
        /\ SlotFree(r)
        /\ ~AuthGate(cred)
        /\ resp' = Reply([Plain(route, NoVoter) EXCEPT !.credOk = LiveCredential(cred)],
                         401, 0)
        /\ pre' = Audited(NoVoter, 0, cred, NoBody) /\ nreq' = Received
        /\ UNCHANGED <<Mode, clients, Tables, sessions, nsid, req, History>>

\* ------------------------------------------------------------ registration, login
\* POST /api/register up to the await of User.findOne
RegisterStart(r) ==
    \E cnp \in CnpInputs :
        /\ SlotFree(r)
        /\ SessionIdLeft
        /\ IF ~ValidCnp(cnp) \/ FindUser(VoterOf(cnp)).found
           THEN /\ resp' = Reply(Plain("register", VoterOf(cnp)), 400, 0)
                /\ UNCHANGED req
           ELSE /\ resp' = NoResp
                /\ req' = [req EXCEPT ![r] =
                      [Plain("register", VoterOf(cnp)) EXCEPT !.pc = "registerCreate"]]
        /\ pre' = Arrival(VoterOf(cnp), 0) /\ nreq' = Received
        /\ UNCHANGED <<Mode, clients, Tables, sessions, nsid, History>>

\* User.create({ cnp }) and the session / token handed back; the unique index on
\* cnp makes a second insert throw, which the handler answers 500
RegisterCreate(r) ==
    /\ req[r].pc = "registerCreate"
    /\ IF users[req[r].voter].found
       THEN /\ resp' = Reply(req[r], 500, 0)
            /\ UNCHANGED <<users, sessions, nsid>>
       ELSE /\ users' = [users EXCEPT ![req[r].voter] = NewUser]
            /\ nsid' = nsid + 1
            /\ sessions' = [sessions EXCEPT ![nsid + 1] = req[r].voter]
            /\ resp' = Reply(req[r], 201, 0)
    /\ req' = [req EXCEPT ![r] = Idle]
    /\ UNCHANGED <<Mode, clients, candidates, issued, pre, nreq, History>>

\* POST /api/login
Login(r) ==
    \E cnp \in CnpInputs :
        /\ SlotFree(r)
        /\ SessionIdLeft
        /\ IF FindUser(VoterOf(cnp)).found
           THEN /\ nsid' = nsid + 1
                /\ sessions' = [sessions EXCEPT ![nsid + 1] = VoterOf(cnp)]
                /\ resp' = Reply(Plain("login", VoterOf(cnp)), 200, 0)
           ELSE /\ resp' = Reply(Plain("login", NoVoter), 401, 0)
                /\ UNCHANGED <<sessions, nsid>>
        /\ pre' = Arrival(VoterOf(cnp), 0) /\ nreq' = Received
        /\ UNCHANGED <<Mode, clients, Tables, req, History>>

\* sessionStore.destroy(sessionId)
destroyNothing(store, sessionId) == store
destroy(store, sessionId) ==
    IF sessionId \in SessionIds THEN [store EXCEPT ![sessionId] = NoVoter] ELSE store

\* POST /api/logout: the session variant destroys the session, the JWT variant
\* only answers
Logout(r) ==
    \E cred \in Credentials :
        /\ SlotFree(r)
        /\ IF variant = "jwt"
           THEN /\ resp' = Reply(Plain("logout", NoVoter), 200, 0)
                /\ UNCHANGED <<sessions, ended>>
           ELSE IF cred = NoCred
           THEN /\ resp' = Reply(Plain("logout", NoVoter), 400, 0)
                /\ UNCHANGED <<sessions, ended>>
           ELSE /\ resp' = Reply(Plain("logout", NoVoter), 200, 0)
                /\ sessions' = destroy(sessions, cred)
                /\ ended' = Ended(cred, "logout")
        /\ pre' = Audited(NoVoter, 0, cred, NoBody) /\ nreq' = Received
        /\ UNCHANGED <<Mode, clients, Tables, nsid, req, oks, okFor, tampered>>

\* GET /api/check-session.  server.js: { isAuthenticated: false } without the header
\* or without a stored session with a user, else User.findOne.  part_000: the route
\* is behind authenticateJWT
CheckSessionStart(r) ==
    \E cred \in Credentials :
        /\ SlotFree(r)
        /\ LET rec == [Plain("check", SessionUser(cred)) EXCEPT
                          !.credOk = LiveCredential(cred)]
           IN IF variant = "session" /\ (cred = NoCred \/ ~SessionFound(cred))
              THEN resp' = Reply(rec, 200, 0) /\ UNCHANGED req
              ELSE IF variant # "session" /\ ~authenticateJWT(cred)
              THEN resp' = Reply(rec, 401, 0) /\ UNCHANGED req
              ELSE /\ resp' = NoResp
                   /\ req' = [req EXCEPT ![r] = [rec EXCEPT !.pc = "checkFindUser"]]
        /\ pre' = Audited(SessionUser(cred), 0, cred, NoBody) /\ nreq' = Received
        /\ UNCHANGED <<Mode, clients, Tables, sessions, nsid, History>>

\* User.findOne(...) resolved: isAuthenticated is whether the row exists
CheckSessionUser(r) ==
    /\ req[r].pc = "checkFindUser"
    /\ resp' = [Reply(req[r], 200, 0) EXCEPT !.auth = FindUser(req[r].voter).found]
    /\ req' = [req EXCEPT ![r] = Idle]
    /\ UNCHANGED <<Mode, clients, Tables, sessions, nsid, pre, nreq, History>>

\* a stored session passes its expiry, a token its 24h
Expire ==
    \E s \in SessionIds :
        /\ sessions[s] # NoVoter
        /\ sessions' = [sessions EXCEPT ![s] = NoVoter]
        /\ ended' = Ended(s, "expired")
        /\ resp' = NoResp
        /\ pre' = IF \A r \in Slots : req[r].pc = "idle" THEN NoTables ELSE pre
        /\ UNCHANGED <<Mode, clients, Tables, nsid, req, nreq, oks, okFor, tampered>>

findAllEmpty == EmptyTable
\* Candidate.findAll(): every stored row
findAll == candidates

\* ------------------------------------------------------------ websocket clients
\* client.readyState === WebSocket.OPEN: the socket is in wss.clients from the
\* upgrade on, also while its connection handler still waits for a lookup
IsOpen(c) == clients[c].state \in {"lookup", "reading", "sending", "open"}

\* history: a write that changes table candidates leaves behind every connection
\* handler that has read the list and not yet sent it
Outdated(table) ==
    [c \in Clients |->
        IF clients[c].state = "sending" /\ table # candidates
        THEN [clients[c] EXCEPT !.behind = TRUE]
        ELSE clients[c]]

SendAwaitsPeer(c) == clients[c].reads
\* client.send(...) hands the message to the socket and returns (part_000 awaits
\* its return value, which is undefined): nothing waits for the peer
SendCompletes(c) == TRUE

\* for (const client of wss.clients) if (client.readyState === WebSocket.OPEN)
\*     client.send(JSON.stringify({ type: 'candidates', data: candidates }))
Delivered(list, ahead) ==
    [c \in Clients |->
        IF IsOpen(c)
        THEN [clients[c] EXCEPT
                 !.last = list,
                 !.overtaken = @ \/ (c \in ahead /\ clients[c].state = "sending"
                                               /\ list # clients[c].list)]
        ELSE clients[c]]

\* wss.on('connection'), for the sockets in the order in which they connect: the
\* socket is open and in wss.clients.  server.js closes it
\* at once without the header and otherwise starts sessionStore.get; part_000
\* verifies the token in place and starts Candidate.findAll
WsConnect(c) ==
    \E cred \in Credentials, reads \in BOOLEAN :
        /\ listeners
        /\ clients[c].state = "none"
        /\ \A b \in Clients : b < c => clients[b].state # "none"
        /\ LET state == IF variant = "session"
                        THEN (IF cred = NoCred THEN "closed" ELSE "lookup")
                        ELSE (IF authenticateJWT(cred) THEN "reading" ELSE "closed")
           IN clients' = [clients EXCEPT ![c] =
                 [@ EXCEPT !.state = state,
                           !.cred = IF state = "lookup" THEN cred ELSE NoCred,
                           !.valid = LiveCredential(cred),
                           !.reads = reads \/ state = "closed"]]
        /\ resp' = NoResp
        /\ UNCHANGED <<Mode, Tables, sessions, nsid, req, pre, nreq, History>>

\* the callback of sessionStore.get: ws.close(1008, ...) or Candidate.findAll()
WsLookup(c) ==
    /\ clients[c].state = "lookup"
    /\ clients' = [clients EXCEPT ![c] =
          [@ EXCEPT !.state = IF SessionFound(clients[c].cred) THEN "reading" ELSE "closed",
                    !.reads = @ \/ ~SessionFound(clients[c].cred),
                    !.cred = NoCred]]
    /\ resp' = NoResp
    /\ UNCHANGED <<Mode, Tables, sessions, nsid, req, pre, nreq, History>>

\* const candidates = await Candidate.findAll() of the connection handler
WsFindAll(c) ==
    /\ clients[c].state = "reading"
    /\ clients' = [clients EXCEPT ![c] =
          [@ EXCEPT !.state = "sending", !.list = findAll, !.behind = FALSE]]
    /\ resp' = NoResp
    /\ UNCHANGED <<Mode, Tables, sessions, nsid, req, pre, nreq, History>>

\* ws.send(JSON.stringify({ type: 'candidates', data: candidates })): the initial
\* snapshot
WsSend(c) ==
    /\ clients[c].state = "sending"
    /\ clients' = [clients EXCEPT ![c] =
          [@ EXCEPT !.state = "open", !.last = clients[c].list, !.list = <<>>,
                    !.stale = clients[c].overtaken,
                    !.behind = FALSE, !.overtaken = FALSE]]
    /\ resp' = NoResp
    /\ UNCHANGED <<Mode, Tables, sessions, nsid, req, pre, nreq, History>>

\* the client goes away: the socket leaves wss.clients (what it had received is
\* of no interest any more)
WsClose(c) ==
    /\ IsOpen(c)
    /\ clients' = [clients EXCEPT ![c] =
          [@ EXCEPT !.state = "closed", !.cred = NoCred, !.reads = TRUE,
                    !.list = <<>>, !.last = <<>>,
                    !.behind = FALSE, !.overtaken = FALSE, !.stale = FALSE]]
    /\ resp' = NoResp
    /\ UNCHANGED <<Mode, Tables, sessions, nsid, req, pre, nreq, History>>

\* ------------------------------------------------------------ protected routes
\* the request of slot r wrote table candidates: the requests that have mutated and
\* not yet re-read the list see one more store content
Written(r, mine, table) ==
    [s \in Slots |->
        IF s = r THEN mine
        ELSE IF req[s].tracking THEN [req[s] EXCEPT !.hist = @ \cup {table}]
        ELSE req[s]]

\* history: the handler of a create/update/delete applied its mutation
Mutated(rec, table) ==
    IF rec.route \in MutatingRoutes
    THEN [rec EXCEPT !.tracking = TRUE, !.post = table, !.hist = {table}]
    ELSE rec

\* ---- POST /api/vote/:candidateId
AlreadyVotedNever(user) == FALSE
\* if (user.hasVoted)
AlreadyVoted(user) == user.hasVoted

NoCandidateNever(candidate) == FALSE
\* if (!candidate) in the vote handler
NoCandidate(candidate) == ~candidate.exists

\* const user = await User.findOne(...); if (user.hasVoted) return 400
\* (user null: user.hasVoted throws, the catch answers 500)
VoteFindUser(r) ==
    \E cred \in Credentials, cid \in CandIds :
        /\ SlotFree(r)
        /\ AuthGate(cred)
        /\ LET rec == Admitted("vote", cred, cid, NoBody)
               user == FindUser(rec.voter)
           IN IF ~user.found
              THEN resp' = Reply(rec, 500, 0) /\ UNCHANGED req
              ELSE IF AlreadyVoted(user)
              THEN resp' = Reply(rec, 400, 0) /\ UNCHANGED req
              ELSE /\ resp' = NoResp
                   /\ req' = [req EXCEPT ![r] =
                         [rec EXCEPT !.pc = "voteFindCandidate", !.user = user]]
        /\ pre' = Arrival(SessionUser(cred), cid) /\ nreq' = Received
        /\ UNCHANGED <<Mode, clients, Tables, sessions, nsid, History>>

\* const candidate = await Candidate.findOne(...); if (!candidate) return 404;
\* user.hasVoted = true; user.votedCandidateId = candidateId; candidate.voteCount += 1
VoteFindCandidate(r) ==
    /\ req[r].pc = "voteFindCandidate"
    /\ LET candidate == candidates[req[r].cid] IN
       IF NoCandidate(candidate)
       THEN /\ resp' = Reply(req[r], 404, 0)
            /\ req' = [req EXCEPT ![r] = Idle]
       ELSE /\ resp' = NoResp
            /\ req' = [req EXCEPT ![r] =
                  [@ EXCEPT !.pc = "voteSaveUser",
                            !.user = [@ EXCEPT !.hasVoted = TRUE,
                                               !.votedCandidateId = req[r].cid],
                            !.candidate = [candidate EXCEPT !.voteCount = @ + 1]]]
    /\ UNCHANGED <<Mode, clients, Tables, sessions, nsid, pre, nreq, History>>

\* await user.save(): UPDATE users SET hasVoted, votedCandidateId WHERE id = user.id
VoteSaveUser(r) ==
    /\ req[r].pc = "voteSaveUser"
    /\ users' = [users EXCEPT ![req[r].voter] = req[r].user]
    /\ req' = [req EXCEPT ![r] =
          [@ EXCEPT !.pc = "voteSaveCandidate", !.wUser = TRUE, !.user = NoUser]]
    /\ resp' = NoResp
    /\ UNCHANGED <<Mode, clients, candidates, issued, sessions, nsid, pre, nreq, History>>

\* await candidate.save(): UPDATE candidates SET voteCount = <the local value>
\* WHERE id = candidate.id; no row is left to update when the candidate was deleted
VoteSaveCandidate(r) ==
    /\ req[r].pc = "voteSaveCandidate"
    /\ LET there == candidates[req[r].cid].exists
           table == IF there
                    THEN [candidates EXCEPT
                             ![req[r].cid].voteCount = req[r].candidate.voteCount]
                    ELSE candidates
           mine == [req[r] EXCEPT !.pc = "findAll", !.wCand = there, !.candidate = NoRow]
       IN /\ candidates' = table
          /\ req' = Written(r, mine, table)
          /\ clients' = Outdated(table)
    /\ resp' = NoResp
    /\ UNCHANGED <<Mode, users, issued, sessions, nsid, pre, nreq, History>>

\* ---- GET /api/candidates
ListCandidates(r) ==
    \E cred \in Credentials :
        /\ SlotFree(r)
        /\ AuthGate(cred)
        /\ resp' = Reply(Admitted("list", cred, 0, NoBody), 200, 0)
        /\ pre' = Audited(SessionUser(cred), 0, cred, NoBody) /\ nreq' = Received
        /\ UNCHANGED <<Mode, clients, Tables, sessions, nsid, req, History>>

\* ---- POST /api/candidates
\* the object literal { ...a, ...b }: the properties of both, b's value where both
\* have the property
SpreadFirstWins(a, b) ==
    [f \in DOMAIN a \cup DOMAIN b |-> IF f \in DOMAIN a THEN a[f] ELSE b[f]]
Spread(a, b) ==
    [f \in DOMAIN a \cup DOMAIN b |-> IF f \in DOMAIN b THEN b[f] ELSE a[f]]

\* the bodies that clients post: full payloads in the audited behaviours
CreateBodies == IF audit THEN Payloads ELSE Bodies

\* Candidate.create({ ...req.body, id: uuidv4(), voteCount: 0 }); name is allowNull:
\* false, so a body without it is rejected by validation and the catch answers 500
CreateCandidate(r) ==
    \E cred \in Credentials, body \in CreateBodies :
        /\ SlotFree(r)
        /\ AuthGate(cred)
        /\ issued < MaxCandidates
        /\ LET rec == Admitted("create", cred, 0, NoBody) IN
           IF ~Has(body, "name")
           THEN /\ resp' = Reply(rec, 500, 0)
                /\ UNCHANGED <<candidates, issued, req, clients>>
           ELSE LET values == Spread(body, [id |-> issued + 1, voteCount |-> 0])
                    id == values.id
                    row == [exists |-> TRUE, name |-> values.name,
                            voteCount |-> values.voteCount]
                    table == [candidates EXCEPT ![id] = row]
                    mine == [rec EXCEPT !.pc = "findAll", !.cid = id, !.wCand = TRUE]
                IN /\ issued' = issued + 1
                   /\ candidates' = table
                   /\ req' = Written(r, Mutated(mine, table), table)
                   /\ clients' = Outdated(table)
                   /\ resp' = NoResp
        /\ pre' = Audited(SessionUser(cred), 0, cred, body) /\ nreq' = Received
        /\ UNCHANGED <<Mode, users, sessions, nsid, History>>

\* ---- POST /api/candidates/generate
\* generateCandidate() draws the fields at random; Candidate.create(newCandidate)
GenerateCandidate(r) ==
    \E cred \in Credentials, name \in Names :
        /\ SlotFree(r)
        /\ AuthGate(cred)
        /\ issued < MaxCandidates
        /\ LET id == issued + 1
               row == [exists |-> TRUE, name |-> name, voteCount |-> 0]
               table == [candidates EXCEPT ![id] = row]
               mine == [Admitted("generate", cred, id, NoBody) EXCEPT
                           !.pc = "findAll", !.wCand = TRUE]
           IN /\ issued' = id
              /\ candidates' = table
              /\ req' = Written(r, mine, table)
              /\ clients' = Outdated(table)
        /\ resp' = NoResp
        /\ pre' = Arrival(SessionUser(cred), 0) /\ nreq' = Received
        /\ UNCHANGED <<Mode, users, sessions, nsid, History>>

\* ---- PUT /api/candidates/:id
NotFoundNever(candidate) == FALSE
\* if (!candidate) in the update and delete handlers
NotFound(candidate) == ~candidate.exists

\* const candidate = await Candidate.findOne(...); if (!candidate) return 404
UpdateFind(r) ==
    \E cred \in Credentials, cid \in CandIds, body \in Bodies :
        /\ SlotFree(r)
        /\ AuthGate(cred)
        /\ LET rec == Admitted("update", cred, cid, body) IN
           IF NotFound(candidates[cid])
           THEN /\ resp' = Reply(rec, 404, 0)
                /\ UNCHANGED req
           ELSE /\ resp' = NoResp
                /\ req' = [req EXCEPT ![r] = [rec EXCEPT !.pc = "updateSave"]]
        /\ pre' = Arrival(SessionUser(cred), cid) /\ nreq' = Received
        /\ UNCHANGED <<Mode, clients, Tables, sessions, nsid, History>>

\* the row after UPDATE candidates SET <the body's fields>
Patched(row, body) ==
    [exists |-> row.exists,
     name |-> IF Has(body, "name") THEN body.name ELSE row.name,
     voteCount |-> IF Has(body, "voteCount") THEN body.voteCount ELSE row.voteCount]

\* await candidate.update(req.body): the body's fields are written to the row with
\* this id, voteCount included; no row is left to update when it was deleted
UpdateSave(r) ==
    /\ req[r].pc = "updateSave"
    /\ LET id == req[r].cid
           there == candidates[id].exists
           table == IF there
                    THEN [candidates EXCEPT ![id] = Patched(@, req[r].body)]
                    ELSE candidates
           mine == [req[r] EXCEPT !.pc = "findAll", !.body = NoBody, !.wCand = there]
       IN /\ candidates' = table
          /\ req' = Written(r, Mutated(mine, table), table)
          /\ clients' = Outdated(table)
          /\ IF there /\ Has(req[r].body, "voteCount")
             THEN tampered' = tampered \cup {id} /\ okFor' = [okFor EXCEPT ![id] = 0]
             ELSE UNCHANGED <<tampered, okFor>>
    /\ resp' = NoResp
    /\ UNCHANGED <<Mode, users, issued, sessions, nsid, pre, nreq, oks, ended>>

\* ---- DELETE /api/candidates/:id
DeleteFind(r) ==
    \E cred \in Credentials, cid \in CandIds :
        /\ SlotFree(r)
        /\ AuthGate(cred)
        /\ LET rec == Admitted("delete", cred, cid, NoBody) IN
           IF NotFound(candidates[cid])
           THEN /\ resp' = Reply(rec, 404, 0)
                /\ UNCHANGED req
           ELSE /\ resp' = NoResp
                /\ req' = [req EXCEPT ![r] = [rec EXCEPT !.pc = "deleteDestroy"]]
        /\ pre' = Arrival(SessionUser(cred), cid) /\ nreq' = Received
        /\ UNCHANGED <<Mode, clients, Tables, sessions, nsid, History>>

\* await candidate.destroy(): DELETE FROM candidates WHERE id = candidate.id
DeleteDestroy(r) ==
    /\ req[r].pc = "deleteDestroy"
    /\ LET id == req[r].cid
           table == [candidates EXCEPT ![id] = NoRow]
           mine == [req[r] EXCEPT !.pc = "findAll", !.wCand = candidates[id].exists]
       IN /\ candidates' = table
          /\ req' = Written(r, Mutated(mine, table), table)
          /\ clients' = Outdated(table)
          /\ tampered' = tampered \ {id}
          /\ okFor' = [okFor EXCEPT ![id] = 0]
    /\ resp' = NoResp
    /\ UNCHANGED <<Mode, users, issued, sessions, nsid, pre, nreq, oks, ended>>

\* ---- broadcastCandidates and the response that follows it
SuccessStatus(route) ==
    CASE route = "vote" -> 200
      [] route = "create" -> 201
      [] route = "generate" -> 201
      [] route = "update" -> 200
      [] route = "delete" -> 204

\* const candidates = await Candidate.findAll()
BroadcastFindAll(r) ==
    /\ req[r].pc = "findAll"
    /\ req' = [req EXCEPT ![r] =
          [@ EXCEPT !.pc = "send", !.tracking = FALSE,
                    !.list = IF req[r].route \in MutatingRoutes \/ listeners
                             THEN findAll ELSE <<>>,
                    !.ahead = {c \in Clients : clients[c].state = "sending"
                                                  /\ clients[c].behind}]]
    /\ resp' = NoResp
    /\ UNCHANGED <<Mode, clients, Tables, sessions, nsid, pre, nreq, History>>

\* the loop over wss.clients sends the list read above; then the handler answers
BroadcastSend(r) ==
    /\ req[r].pc = "send"
    /\ \A c \in Clients : IsOpen(c) => SendCompletes(c)
    /\ LET voted == req[r].route = "vote" IN
       /\ resp' = Reply(req[r], SuccessStatus(req[r].route), 1)
       /\ req' = [req EXCEPT ![r] = Idle]
       /\ clients' = Delivered(req[r].list, req[r].ahead)
       /\ oks' = IF voted THEN [oks EXCEPT ![req[r].voter] = @ + 1] ELSE oks
       /\ okFor' = IF voted /\ candidates[req[r].cid].exists /\ req[r].cid \notin tampered
                   THEN [okFor EXCEPT ![req[r].cid] = @ + 1]
                   ELSE okFor
    /\ UNCHANGED <<Mode, Tables, sessions, nsid, pre, nreq, tampered, ended>>

\* ------------------------------------------------------------ specifications
Next ==
    \/ \E r \in Slots : RegisterStart(r)
    \/ \E r \in Slots : RegisterCreate(r)
    \/ \E r \in Slots : Login(r)
    \/ \E r \in Slots : Logout(r)
    \/ Expire
    \/ \E r \in Slots : Reject(r)
    \/ \E r \in Slots : VoteFindUser(r)
    \/ \E r \in Slots : VoteFindCandidate(r)
    \/ \E r \in Slots : VoteSaveUser(r)
    \/ \E r \in Slots : VoteSaveCandidate(r)
    \/ \E r \in Slots : ListCandidates(r)
    \/ \E r \in Slots : CreateCandidate(r)
    \/ \E r \in Slots : GenerateCandidate(r)
    \/ \E r \in Slots : UpdateFind(r)
    \/ \E r \in Slots : UpdateSave(r)
    \/ \E r \in Slots : DeleteFind(r)
    \/ \E r \in Slots : DeleteDestroy(r)
    \/ \E r \in Slots : BroadcastFindAll(r)
    \/ \E r \in Slots : BroadcastSend(r)

\* requests overlap at their awaits
Spec == Init /\ [][Next]_vars
\* one request at a time
SpecSeq == InitSeq /\ [][Next]_vars

\* ------------------------------------------------------------ failing store calls
\* the positions at which a handler waits for a store call inside its try block
AwaitedInTry ==
    {"registerCreate", "voteFindCandidate", "voteSaveUser", "voteSaveCandidate",
     "updateSave", "deleteDestroy", "findAll"}

\* the awaited call rejects: the handler's catch answers 500; what the handler
\* wrote before stays written
StoreFails(r) ==
    /\ req[r].pc \in AwaitedInTry
    /\ resp' = Reply(req[r], 500, 0)
    /\ req' = [req EXCEPT ![r] = Idle]
    /\ UNCHANGED <<Mode, clients, Tables, sessions, nsid, pre, nreq, History>>

\* User.findOne of check-session rejects.  part_000 awaits it inside try/catch and
\* answers 500; server.js chains .then(...) without a rejection handler, so nothing
\* answers the request (pc "unanswered": the rejection is unhandled)
CheckSessionFails(r) ==
    /\ req[r].pc = "checkFindUser"
    /\ IF variant = "session"
       THEN /\ resp' = NoResp
            /\ req' = [req EXCEPT ![r] = [@ EXCEPT !.pc = "unanswered"]]
       ELSE /\ resp' = Reply(req[r], 500, 0)
            /\ req' = [req EXCEPT ![r] = Idle]
    /\ UNCHANGED <<Mode, clients, Tables, sessions, nsid, pre, nreq, History>>

\* registrations, session checks, votes and candidate creations, one request at a
\* time, each store call of which may fail
NextFail ==
    \/ \E r \in Slots : RegisterStart(r)
    \/ \E r \in Slots : RegisterCreate(r)
    \/ \E r \in Slots : CheckSessionStart(r)
    \/ \E r \in Slots : CheckSessionUser(r)
    \/ \E r \in Slots : CheckSessionFails(r)
    \/ \E r \in Slots : VoteFindUser(r)
    \/ \E r \in Slots : VoteFindCandidate(r)
    \/ \E r \in Slots : VoteSaveUser(r)
    \/ \E r \in Slots : VoteSaveCandidate(r)
    \/ \E r \in Slots : CreateCandidate(r)
    \/ \E r \in Slots : BroadcastFindAll(r)
    \/ \E r \in Slots : BroadcastSend(r)
    \/ \E r \in Slots : StoreFails(r)

SpecFail == InitSeq /\ [][NextFail]_vars

\* ------------------------------------------------------------ restart
\* the process starts again: sequelize.sync({ force: true }) drops and recreates
\* tables users and candidates, requests in flight and sockets are gone.  Table
\* sessions is not a model of sequelize and is only created if missing, so the stored
\* sessions are kept; so is the validity of tokens signed with the same secret
Restart ==
    /\ users' = [v \in Voters |-> NoUser]
    /\ candidates' = EmptyTable
    /\ req' = [r \in Slots |-> Idle]
    /\ resp' = NoResp
    /\ pre' = NoTables
    /\ oks' = [v \in Voters |-> 0]
    /\ okFor' = [c \in CandIds |-> 0]
    /\ tampered' = {}
    /\ clients' = [c \in Clients |-> NoClient]
    /\ UNCHANGED <<Mode, issued, sessions, nsid, nreq, ended>>

NextRestart ==
    \/ \E r \in Slots : RegisterStart(r)
    \/ \E r \in Slots : RegisterCreate(r)
    \/ \E r \in Slots : Login(r)
    \/ \E r \in Slots : Reject(r)
    \/ \E r \in Slots : VoteFindUser(r)
    \/ \E r \in Slots : VoteFindCandidate(r)
    \/ \E r \in Slots : VoteSaveUser(r)
    \/ \E r \in Slots : VoteSaveCandidate(r)
    \/ \E r \in Slots : CreateCandidate(r)
    \/ \E r \in Slots : BroadcastFindAll(r)
    \/ \E r \in Slots : BroadcastSend(r)
    \/ Restart

\* sequential clients of a server that is restarted now and then
SpecRestart == InitSeq /\ [][NextRestart]_vars

\* ------------------------------------------------------------ audited requests
\* sequential clients of either Postgres variant whose credentials and payloads the
\* history keeps: sessions from issue to logout or expiry, and creates with full
\* payloads followed by list reads
InitAudit == InitCommon /\ sequential = TRUE /\ listeners = FALSE /\ audit = TRUE

NextAudit ==
    \/ \E r \in Slots : RegisterStart(r)
    \/ \E r \in Slots : RegisterCreate(r)
    \/ \E r \in Slots : Login(r)
    \/ \E r \in Slots : Logout(r)
    \/ Expire
    \/ \E r \in Slots : Reject(r)
    \/ \E r \in Slots : CheckSessionStart(r)
    \/ \E r \in Slots : CheckSessionUser(r)
    \/ \E r \in Slots : ListCandidates(r)
    \/ \E r \in Slots : CreateCandidate(r)
    \/ \E r \in Slots : BroadcastFindAll(r)
    \/ \E r \in Slots : BroadcastSend(r)

SpecAudit == InitAudit /\ [][NextAudit]_vars

\* ------------------------------------------------------------ in-memory server
\* part_001 and part_002 keep the candidates in an array and have no gate; their
\* handlers are synchronous, so each request is one step.  part_002 wraps each
\* handler in try/catch, part_001 leaves a throw to the framework: both answer 500.

\* broadcastCandidates: wss.clients.forEach evaluates WebSocket.OPEN for the first
\* connected socket.  The files import only { Server } from 'ws' and the runtime
\* (node:18) defines no global WebSocket, so the evaluation throws a ReferenceError
BroadcastThrows == \E c \in Clients : clients[c].state = "open"

\* the request that has applied its mutation, and its answer: the success status
\* when broadcastCandidates returned, 500 when it threw
MemReply(route, status) ==
    Reply([Plain(route, NoVoter) EXCEPT !.wCand = TRUE],
          IF BroadcastThrows THEN 500 ELSE status,
          IF BroadcastThrows THEN 0 ELSE 1)

\* request bodies of the in-memory create and update: a name, with or without an id
\* of the client's choosing
MemBodies ==
    {[name |-> n] : n \in Names} \cup {[name |-> n, id |-> i] : n \in Names, i \in CandIds}

\* { ...req.body, id: uuidv4() }
MemRow(body, id) == Spread(body, [id |-> id])

\* candidates.findIndex((c) => c.id === id): the first index with that id, 0 for -1
findIndex(id) ==
    IF \E i \in 1..Len(candidates) : candidates[i].id = id
    THEN CHOOSE i \in 1..Len(candidates) :
            /\ candidates[i].id = id
            /\ \A j \in 1..(i - 1) : candidates[j].id # id
    ELSE 0

\* candidates.splice(index, 1)
splice(list, index) ==
    [i \in 1..(Len(list) - 1) |-> IF i < index THEN list[i] ELSE list[i + 1]]

\* wss.on('connection'): ws.send of the current array
MemConnect(c) ==
    /\ clients[c].state = "none"
    /\ \A b \in Clients : b < c => clients[b].state # "none"
    /\ clients' = [clients EXCEPT ![c] = [@ EXCEPT !.state = "open", !.last = candidates]]
    /\ resp' = NoResp
    /\ UNCHANGED <<Mode, Tables, sessions, nsid, req, pre, nreq, History>>

\* the socket closes and leaves wss.clients
MemClose(c) ==
    /\ clients[c].state = "open"
    /\ clients' = [clients EXCEPT ![c] = [@ EXCEPT !.state = "closed", !.last = <<>>]]
    /\ resp' = NoResp
    /\ UNCHANGED <<Mode, Tables, sessions, nsid, req, pre, nreq, History>>

\* GET /api/candidates
MemList ==
    /\ resp' = Reply(Plain("list", NoVoter), 200, 0)
    /\ pre' = Arrival(NoVoter, 0)
    /\ UNCHANGED <<Mode, clients, Tables, sessions, nsid, req, nreq, History>>

\* POST /api/candidates: candidates.push(candidate); broadcastCandidates();
\* res.status(201).json(candidate)
MemCreate ==
    \E body \in MemBodies :
        /\ issued < MaxCandidates
        /\ issued' = issued + 1
        /\ candidates' = Append(candidates, MemRow(body, issued + 1))
        /\ resp' = MemReply("create", 201)
        /\ pre' = Arrival(NoVoter, 0)
        /\ UNCHANGED <<Mode, clients, users, sessions, nsid, req, nreq, History>>

\* POST /api/candidates/generate
MemGenerate ==
    \E name \in Names :
        /\ issued < MaxCandidates
        /\ issued' = issued + 1
        /\ candidates' = Append(candidates, [id |-> issued + 1, name |-> name])
        /\ resp' = MemReply("generate", 201)
        /\ pre' = Arrival(NoVoter, 0)
        /\ UNCHANGED <<Mode, clients, users, sessions, nsid, req, nreq, History>>

\* PUT /api/candidates/:id: findIndex, 404,
\* candidates[index] = { ...candidates[index], ...req.body }
MemUpdate ==
    \E cid \in CandIds, body \in MemBodies :
        /\ LET index == findIndex(cid) IN
           IF index = 0
           THEN /\ resp' = Reply(Plain("update", NoVoter), 404, 0)
                /\ UNCHANGED candidates
           ELSE /\ candidates' = [candidates EXCEPT ![index] = Spread(@, body)]
                /\ resp' = MemReply("update", 200)
        /\ pre' = Arrival(NoVoter, cid)
        /\ UNCHANGED <<Mode, clients, users, issued, sessions, nsid, req, nreq, History>>

\* DELETE /api/candidates/:id: findIndex, 404, candidates.splice(index, 1)
MemDelete ==
    \E cid \in CandIds :
        /\ LET index == findIndex(cid) IN
           IF index = 0
           THEN /\ resp' = Reply(Plain("delete", NoVoter), 404, 0)
                /\ UNCHANGED candidates
           ELSE /\ candidates' = splice(candidates, index)
                /\ resp' = MemReply("delete", 204)
        /\ pre' = Arrival(NoVoter, cid)
        /\ UNCHANGED <<Mode, clients, users, issued, sessions, nsid, req, nreq, History>>

InitMem ==
    /\ variant = "memory"
    /\ sequential = TRUE
    /\ listeners = TRUE
    /\ users = [v \in Voters |-> NoUser]
    /\ candidates = <<>>
    /\ issued = 0
    /\ sessions = [s \in SessionIds |-> NoVoter]
    /\ nsid = 0
    /\ req = [r \in Slots |-> Idle]
    /\ resp = NoResp
    /\ pre = NoTables
    /\ nreq = 0
    /\ oks = [v \in Voters |-> 0]
    /\ okFor = [c \in CandIds |-> 0]
    /\ tampered = {}
    /\ clients = [c \in Clients |-> NoClient]
    /\ audit = FALSE
    /\ ended = [s \in SessionIds |-> ""]

NextMem ==
    \/ \E c \in Clients : MemConnect(c)
    \/ \E c \in Clients : MemClose(c)
    \/ MemList
    \/ MemCreate
    \/ MemGenerate
    \/ MemUpdate
    \/ MemDelete

SpecMem == InitMem /\ [][NextMem]_vars

\* a voter is registered and holds a session; websocket clients connect while
\* candidates are created by overlapping requests
InitWs ==
    /\ variant \in {"session", "jwt"}
    /\ sequential = FALSE
    /\ listeners = TRUE
    /\ users = [v \in Voters |-> IF v = 1 THEN NewUser ELSE NoUser]
    /\ candidates = EmptyTable
    /\ issued = 0
    /\ sessions = [s \in SessionIds |-> IF s = 1 THEN 1 ELSE NoVoter]
    /\ nsid = 1
    /\ req = [r \in Slots |-> Idle]
    /\ resp = NoResp
    /\ pre = NoTables
    /\ nreq = 0
    /\ oks = [v \in Voters |-> 0]
    /\ okFor = [c \in CandIds |-> 0]
    /\ tampered = {}
    /\ clients = [c \in Clients |-> NoClient]
    /\ audit = FALSE
    /\ ended = [s \in SessionIds |-> ""]

NextWs ==
    \/ \E c \in Clients : WsConnect(c)
    \/ \E c \in Clients : WsLookup(c)
    \/ \E c \in Clients : WsFindAll(c)
    \/ \E c \in Clients : WsSend(c)
    \/ \E c \in Clients : WsClose(c)
    \/ \E r \in Slots : CreateCandidate(r)
    \/ \E r \in Slots : BroadcastFindAll(r)
    \/ \E r \in Slots : BroadcastSend(r)

SpecWs == InitWs /\ [][NextWs]_vars

\* ------------------------------------------------------------ claims
Quiescent == \A r \in Slots : req[r].pc = "idle"
Stored(c) == candidates[c].exists
VotersOf(c) ==
    {v \in Voters : users[v].found /\ users[v].hasVoted /\ users[v].votedCandidateId = c}
Succeeded(status) == status \in {200, 201, 204}
TablesAsFound == users = pre.users /\ candidates = pre.candidates
NoEffect == ~resp.wUser /\ ~resp.wCand /\ resp.nbc = 0

\* C1: two vote requests of one voter never both get 'Vote recorded successfully'
\* (a later request cannot, so two successes are those of overlapping requests)
C1_NotBothSucceed == \A v \in Voters : oks[v] <= 1

\* C2: once all requests have completed, a candidate whose votes were all cast by
\* distinct voters, and whose count no update overwrote, has a voteCount equal to
\* the number of vote requests for it that succeeded
C2_NoLostUpdate ==
    (Quiescent /\ \A v \in Voters : oks[v] <= 1)
        => \A c \in CandIds :
              (Stored(c) /\ c \notin tampered) => candidates[c].voteCount = okFor[c]

\* C3: a finished vote request has set the voter's flag and chosen candidate
\* exactly when it has incremented the candidate's count
C3_VoteAtomic ==
    (resp.route = "vote" /\ resp.status # 0) => (resp.wUser <=> resp.wCand)

\* C4: between sequential requests every stored candidate's voteCount is the
\* number of voters whose votedCandidateId is its id
C4_CountsMatchVoters ==
    Quiescent => \A c \in CandIds : Stored(c) => candidates[c].voteCount = Cardinality(VotersOf(c))

\* C5: hasVoted never goes back to false, and a votedCandidateId once set never
\* changes
C5_VoteImmutable ==
    [][\A v \in Voters :
          /\ users[v].hasVoted => users'[v].hasVoted
          /\ users[v].votedCandidateId # 0
                => users'[v].votedCandidateId = users[v].votedCandidateId]_vars

\* C6: a request for a protected route whose credential is missing, unknown or
\* expired is answered 401, has changed no table and has broadcast nothing; every
\* request inside a protected handler came with a live credential
C6_GateRejects ==
    /\ (resp.route \in ProtectedRoutes /\ ~resp.credOk)
          => (resp.status = 401 /\ TablesAsFound /\ NoEffect)
    /\ \A r \in Slots :
          (req[r].pc # "idle" /\ req[r].route \in ProtectedRoutes) => req[r].credOk
C6_Witness ==
    /\ resp.route = "delete" /\ resp.status = 401
    /\ nsid > 0 /\ Stored(1)

\* C7: a vote request that arrives after a vote of the same voter has succeeded is
\* answered 400 and leaves both tables as it found them, whatever id it targets
C7_SecondVoteRejected ==
    (resp.route = "vote" /\ resp.credOk /\ resp.after)
        => (resp.status = 400 /\ TablesAsFound /\ NoEffect)
C7_Witness ==
    /\ resp.route = "vote" /\ resp.after /\ resp.status = 400
    /\ ~Stored(pre.cid)

\* C8: a vote request of a voter who has not voted, for an id that is not stored,
\* is answered 404 and leaves both tables as it found them (hasVoted still false)
C8_VoteForMissingCandidate ==
    (/\ resp.route = "vote" /\ resp.credOk
     /\ pre.voter \in Voters /\ pre.users[pre.voter].found
     /\ ~pre.users[pre.voter].hasVoted
     /\ ~pre.candidates[pre.cid].exists)
        => (/\ resp.status = 404 /\ TablesAsFound /\ NoEffect
            /\ ~users[pre.voter].hasVoted /\ users[pre.voter].votedCandidateId = 0)
C8_Witness ==
    /\ resp.route = "vote" /\ resp.status = 404
    /\ pre.voter \in Voters /\ ~users[pre.voter].hasVoted
    /\ ~Stored(pre.cid) /\ \E c \in CandIds : Stored(c)

\* C9: an update or delete request for an id that is not stored is answered 404
\* and leaves the tables as it found them
C9_MissingCandidateNotFound ==
    (/\ resp.route \in {"update", "delete"} /\ resp.credOk
     /\ ~pre.candidates[pre.cid].exists)
        => (resp.status = 404 /\ TablesAsFound /\ NoEffect)
C9_Witness ==
    /\ resp.route \in {"update", "delete"} /\ resp.status = 404
    /\ ~Stored(pre.cid) /\ \E c \in CandIds : Stored(c) /\ candidates[c].voteCount > 0

\* C10 as stated: the list a create/update/delete broadcasts is the store content
\* as that request's own mutation left it
C10_BroadcastsOwnResult ==
    \A r \in Slots :
        (req[r].pc = "send" /\ req[r].route \in MutatingRoutes) => req[r].list = req[r].post

\* C10 as amended: every successful create/update/delete has broadcast exactly
\* once, and the list it broadcasts is the full store content read at one moment after
\* its own mutation was applied (it may include other requests' later mutations)
C10_BroadcastsLaterContent ==
    /\ \A r \in Slots :
          (req[r].pc = "send" /\ req[r].route \in MutatingRoutes)
              => req[r].list \in req[r].hist
    /\ (resp.route \in MutatingRoutes /\ Succeeded(resp.status)) => resp.nbc = 1
C10_Witness ==
    \E r \in Slots :
        /\ req[r].pc = "send" /\ req[r].route \in MutatingRoutes
        /\ req[r].list # req[r].post

Settled == \A c \in Clients : clients[c].state \in {"none", "open", "closed"}

\* C11: the initial snapshot a client receives never shows an older store content
\* than a broadcast the same client has received before it
C11_InitialSnapshotCurrent == \A c \in Clients : clients[c].reads => ~clients[c].stale

\* C12: once every request has completed and every connection handler has finished,
\* the last snapshot sent to each open client (whose initial snapshot was not
\* overtaken) is the stored candidate list
C12_LastSnapshotCurrent ==
    (Quiescent /\ Settled)
        => \A c \in Clients :
              (clients[c].state = "open" /\ clients[c].reads /\ ~clients[c].stale)
                  => clients[c].last = candidates

\* C13: when a request has applied its mutation and run its broadcast, every
\* socket that is open holds that broadcast's snapshot as its last message
C13_BroadcastReachesOpen ==
    (resp.route \in {"create", "generate", "update", "delete"} /\ resp.wCand)
        => \A c \in Clients : clients[c].state = "open" => clients[c].last = candidates

\* C14: a vote, create, update, delete or generate request that is answered 500
\* leaves table users and table candidates as it found them
C14_FailureLeavesNoPartialState ==
    (resp.status = 500 /\ resp.route \in {"vote", "create", "update", "delete", "generate"})
        => TablesAsFound

\* C15: no request is left without a response by a failing store call
C15_EveryFailureAnswered == \A r \in Slots : req[r].pc # "unanswered"

\* C16: a register request either succeeds (201) or is answered with a 4xx status
\* (InvalidFormat, Conflict), also when registrations of one identity overlap
C16_RegisterConflict ==
    resp.route = "register"
        => (resp.status = 201 \/ (resp.status >= 400 /\ resp.status < 500))

\* the records a list read returns that the store did not hold when the request arrived
NewRecords == {c \in CandIds : findAll[c].exists /\ ~pre.candidates[c].exists}

\* C17: after a successful create of payload p a list read returns exactly one new
\* record, under an id no stored record had, with p's content fields and voteCount 0,
\* and every other record as it was; also when p carries an id or a voteCount
C17_CreatedAsPosted ==
    (resp.route = "create" /\ resp.status = 201)
        => /\ Cardinality(NewRecords) = 1
           /\ \A c \in NewRecords :
                 findAll[c].name = pre.body.name /\ findAll[c].voteCount = 0
           /\ \A c \in CandIds \ NewRecords : findAll[c] = pre.candidates[c]
\* a create that succeeded whose payload carried a voteCount of 1 and the id of a
\* record already stored
C17_Witness ==
    /\ resp.route = "create" /\ resp.status = 201
    /\ Has(pre.body, "id") /\ Has(pre.body, "voteCount")
    /\ pre.body.voteCount = 1
    /\ pre.candidates[pre.body.id].exists

C19_UnauthenticatedGetsNothing ==
    variant = "session"
        => \A c \in Clients :
              (clients[c].state \in {"lookup", "closed"} /\ ~clients[c].valid)
                  => clients[c].last = <<>>

\* the session variant answered a request of a protected route or a check-session
\* that carried the session id s
Carried(s) ==
    /\ variant = "session" /\ pre.cred = s
    /\ resp.route \in ProtectedRoutes \cup {"check"}
\* the answer lets the request through as authenticated
Accepted ==
    IF resp.route = "check" THEN resp.auth ELSE resp.status # 401

\* C20 as stated: a request that carries a session id whose logout succeeded is
\* rejected (401, isAuthenticated false); one that carries a session id the server
\* issued and whose logout has not happened is accepted
C20_AcceptedUntilLogout ==
    \A s \in 1..nsid :
        Carried(s) => (Accepted <=> ended[s] # "logout")
\* C20 amended: the same, the session being accepted until its logout or its expiry
\* in the store
C20_AcceptedUntilLogoutOrExpiry ==
    \A s \in 1..nsid :
        Carried(s) => /\ ended[s] = "logout" => ~Accepted
                      /\ ended[s] = "" => Accepted
\* a request on a protected route with a session id that was logged out got 401,
\* while another session issued later is live
C20_Witness ==
    \E s \in 1..nsid :
        /\ Carried(s) /\ resp.route \in ProtectedRoutes /\ resp.status = 401
        /\ ended[s] = "logout"
        /\ \E t \in 1..nsid : t # s /\ sessions[t] # NoVoter

\* C21: in the in-memory variants no two entries of the candidate list share an id
C21_IdsDistinct ==
    variant = "memory"
        => \A i, j \in 1..Len(candidates) :
              i # j => candidates[i].id # candidates[j].id

\* the two writes of a vote leave alone what is not the vote's: user.save() the
\* candidates and every other voter, candidate.save() the voters, every other
\* candidate, the set of stored candidates and the content fields of its candidate
VoteFrame(r) ==
    /\ VoteSaveUser(r)
          => /\ candidates' = candidates
             /\ \A v \in Voters \ {req[r].voter} : users'[v] = users[v]
    /\ VoteSaveCandidate(r)
          => /\ users' = users
             /\ \A c \in CandIds \ {req[r].cid} : candidates'[c] = candidates[c]
             /\ candidates'[req[r].cid].exists = candidates[req[r].cid].exists
             /\ candidates'[req[r].cid].name = candidates[req[r].cid].name

\* C22: a vote changes only its voter's hasVoted and votedCandidateId and its
\* candidate's voteCount, and the voteCount of a stored candidate by exactly +1
C22_VoteChangesOnlyItsOwn ==
    [][\A r \in Slots :
          /\ VoteFrame(r)
          /\ (VoteSaveCandidate(r) /\ candidates[req[r].cid].exists)
                => candidates'[req[r].cid].voteCount
                       = candidates[req[r].cid].voteCount + 1]_vars

\* C23: in the session variant every stored session is that of a registered voter,
\* and no vote request that passed the gate is answered 500 for want of its voter
C23_SessionsResolve ==
    variant = "session"
        => /\ \A s \in SessionIds :
                 sessions[s] # NoVoter => users[sessions[s]].found
           /\ (resp.route = "vote" /\ resp.credOk) => resp.status # 500

====
